---- MODULE Spec2Model ----
(***************************************************************************)
(* Model of generate_visualizations.py: the seeded random stream, the      *)
(* three generators (time series, demographics, correlation), the driver   *)
(* main, the output directory and the console.                             *)
(*                                                                         *)
(* Numbers: every real value is held as an integer number of thousandths   *)
(* (70 is 70000).  The normalized correlation matrix is held as exact      *)
(* fractions m[i][j] / den.  Time is in milliseconds.                      *)
(*                                                                         *)
(* The random stream is numpy's global generator, which is library code.   *)
(* It is modelled as a counter-based generator: the state is a counter     *)
(* that every draw advances by gen.inc (odd) modulo Modulus, and a draw's  *)
(* raw value is the new counter put through the permutation                *)
(* x -> gen.mix*x*x + x mod Modulus (gen.mix even).  The parameters gen    *)
(* are unknown but fixed: they are chosen in Init and never change.        *)
(* Seeding sets the counter to the seed.                                   *)
(***************************************************************************)
EXTENDS Integers, Sequences, FiniteSets

VARIABLES
    gen,                 \* parameters of the library's generator (fixed)
    callTicks,           \* milliseconds one statement / one now() call takes (fixed)
    dirExists,           \* whether the directory visualizations/ exists (fixed)
    rng,                 \* state of the process-wide random stream
    clock,               \* wall clock, milliseconds
    run,                 \* number of the current process run
    pc,                  \* position of the process in main
    log,                 \* this run's events: lines printed and files written, in order
    calls,               \* this run's number of invocations of each generator
    files,               \* the output directory: file name -> [state, run]
    timestamps,          \* generate_timeseries_visualization: timestamps
    heart_rate,          \* generate_timeseries_visualization: heart_rate
    blood_pressure_sys,  \* generate_timeseries_visualization: blood_pressure_sys
    spo2,                \* generate_timeseries_visualization: spo2
    data,                \* generate_demographics_visualization: data (the rows)
    correlation_matrix,  \* generate_correlation_visualization: correlation_matrix
    cstage,              \* which statement of the matrix pipeline has run last
    dirAtStart,          \* the output directory as this run found it
    prev                 \* the data arrays the previous run produced

vars == <<gen, callTicks, dirExists, rng, clock, run, pc, log, calls, files,
          timestamps, heart_rate, blood_pressure_sys, spo2, data,
          correlation_matrix, cstage, dirAtStart, prev>>

---------------------------------------------------------------------------
(* Bounds of the model *)

MaxRuns == 2
MaxTicks == 1
MaxGen == 1
MaxNonZero == 1

---------------------------------------------------------------------------
(* The random stream *)

SEED == 42
Modulus == 256

GenFamily == {[inc |-> 2 * k + 1, mix |-> 2 * k + 2] : k \in 0..MaxGen}

SeedFromClock(s) == (s + clock) % Modulus

\* np.random.seed(s): the stream state right after seeding with s.
np_random_seed(s) == s % Modulus

\* The stream state after one draw from state x.
Step(x) == (x + gen.inc) % Modulus

\* The stream state after n draws from state x.
Advance(x, n) == (x + n * gen.inc) % Modulus

\* The raw value (0 .. Modulus-1) of the draw that left the stream in state x.
Raw(x) == (gen.mix * x * x + x) % Modulus

\* The values a standard normal draw can take in the model, in thousandths.
NormalTable == <<-3000, -1500, -500, 0, 0, 500, 1500, 3000>>

NormalValues == {NormalTable[k] : k \in 1..Len(NormalTable)}

\* The normal draw that left the stream in state x: the top bits of its raw value.
Normal(x) == NormalTable[(Raw(x) \div (Modulus \div Len(NormalTable))) + 1]

\* np.random.randn(n): n draws, in order, starting from stream state x.
randn(x, n) == [k \in 1..n |-> Normal(Advance(x, k))]

RandIntInclusive(low, high, x) == low + (Raw(x) % (high - low + 1))

\* np.random.randint(low, high) for the draw that left the stream in state x:
\* low <= r < high.
randint(low, high, x) == low + (Raw(x) % (high - low))

---------------------------------------------------------------------------
(* numpy helpers *)

\* s[lo] + ... + s[hi], by halves.
RECURSIVE SumRange(_, _, _)
SumRange(s, lo, hi) ==
    IF lo > hi THEN 0
    ELSE IF lo = hi THEN s[lo]
    ELSE SumRange(s, lo, (lo + hi) \div 2) + SumRange(s, ((lo + hi) \div 2) + 1, hi)

\* np.cumsum(s)
cumsum(s) == [k \in DOMAIN s |-> SumRange(s, 1, k)]

ClipLowOnly(v, lo, hi) == IF v < lo THEN lo ELSE v

clip(v, lo, hi) == IF v < lo THEN lo ELSE IF v > hi THEN hi ELSE v

\* 1000 * sin(k * 2 * pi / 24), rounded, for k = 0..23.
SinTable == <<0, 259, 500, 707, 866, 966, 1000, 966, 866, 707, 500, 259,
              0, -259, -500, -707, -866, -966, -1000, -966, -866, -707, -500, -259>>

sin24(i) == SinTable[(i % Len(SinTable)) + 1]

Abs(v) == IF v < 0 THEN -v ELSE v

---------------------------------------------------------------------------
(* generate_timeseries_visualization: the synthesized data *)

hours == 72
HourMs == 3600000

\* [datetime.now() - timedelta(hours=hours-i) for i in range(hours)]: element i
\* (0-based) reads the clock anew; each read takes callTicks milliseconds.
Timestamps(now) ==
    [k \in 1..hours |-> (now + (k - 1) * callTicks) - (hours - (k - 1)) * HourMs]

\* 70 + np.cumsum(np.random.randn(hours)) + 10 * np.sin(np.arange(hours) * 2 * np.pi / 24)
HeartRate(x) ==
    [k \in 1..hours |-> 70000 + cumsum(randn(x, hours))[k] + 10 * sin24(k - 1)]

\* np.random.randn(hours) * 0.5
HalfSteps(x) == [k \in 1..hours |-> randn(x, hours)[k] \div 2]

\* 120 + np.cumsum(np.random.randn(hours) * 0.5)
BloodPressureSys(x) == [k \in 1..hours |-> 120000 + cumsum(HalfSteps(x))[k]]

\* np.clip(95 + np.random.randn(hours) * 2, 90, 100)
SpO2(x) == [k \in 1..hours |-> clip(95000 + randn(x, hours)[k] * 2, 90000, 100000)]

---------------------------------------------------------------------------
(* generate_demographics_visualization: the synthesized data *)

age_groups == <<"18-30", "31-45", "46-60", "61-75", "76+">>
outcomes == <<"Discharged", "Transferred", "ICU Stay">>

\* The nested loops: row k (1-based, age-major) takes the k-th draw.
DemographicRows(x) ==
    [k \in 1..(Len(age_groups) * Len(outcomes)) |->
        [AgeGroup |-> age_groups[((k - 1) \div Len(outcomes)) + 1],
         Outcome  |-> outcomes[((k - 1) % Len(outcomes)) + 1],
         Count    |-> randint(10, 100, Advance(x, k))]]

---------------------------------------------------------------------------
(* generate_correlation_visualization: the synthesized data *)

variables == <<"Heart Rate", "Blood Pressure", "SpO2", "Temperature",
               "Respiratory Rate", "GCS Score", "SOFA Score", "WBC Count">>

n_vars == Len(variables)

\* np.random.randn(n_vars, n_vars): the draws fill the matrix row by row.
\* Entry i,j is draw number (i-1)*n_vars + j.
RandnMatrix(x) ==
    [i \in 1..n_vars |-> [j \in 1..n_vars |-> Normal(Advance(x, (i - 1) * n_vars + j))]]

HalfDoubled(M) ==
    [i \in DOMAIN M |-> [j \in DOMAIN M[i] |-> (M[i][j] + M[i][j]) \div 2]]

\* (correlation_matrix + correlation_matrix.T) / 2
Symmetrize(M) ==
    [i \in DOMAIN M |-> [j \in DOMAIN M[i] |-> (M[i][j] + M[j][i]) \div 2]]

FillNothing(M, v) == M

\* np.fill_diagonal(correlation_matrix, v)
fill_diagonal(M, v) ==
    [i \in DOMAIN M |-> [j \in DOMAIN M[i] |-> IF i = j THEN v ELSE M[i][j]]]

Entries(M) == {M[i][j] : i \in DOMAIN M, j \in DOMAIN M}

\* np.max(np.abs(M))
MaxAbs(M) ==
    LET S == {Abs(v) : v \in Entries(M)}
    IN  CHOOSE v \in S : \A w \in S : w <= v

\* correlation_matrix / np.max(np.abs(correlation_matrix)): entry i,j becomes the
\* fraction (M[i][j]/1000) / (MaxAbs(M)/1000) = M[i][j] / MaxAbs(M), held exactly
\* as numerator M[i][j] over the common denominator MaxAbs(M).
Normalize(M) == [m |-> M, den |-> MaxAbs(M)]

\* The matrix handed to the heatmap (lines 140 to 145).
CorrelationMatrix(x) == Normalize(fill_diagonal(Symmetrize(RandnMatrix(x)), 1000))

---------------------------------------------------------------------------
(* The output directory and the console *)

TimeseriesFile == "timeseries.html"
DemographicsFileSlip == "timeseries.html"
DemographicsFile == "demographics.html"
CorrelationFile == "correlation.html"

GeneratorFiles == <<TimeseriesFile, DemographicsFile, CorrelationFile>>

\* What the write of a file can come to: it succeeds; the file cannot be opened
\* (nothing changes); or the write fails after the open truncated the file.
Outcomes == IF dirExists THEN {"ok", "open_error", "write_error"} ELSE {"open_error"}

\* fig.write_html('visualizations/<f>', ...) by run r, with the given outcome.
write_html(fs, f, r, outcome) ==
    IF outcome = "open_error" THEN fs
    ELSE [g \in DOMAIN fs \cup {f} |->
            IF g = f
            THEN [state |-> IF outcome = "ok" THEN "complete" ELSE "partial", run |-> r]
            ELSE fs[g]]

Printed(line) == [kind |-> "print", text |-> line]
Wrote(f) == [kind |-> "write", text |-> f]

\* print("Generated <f>")
Confirmation(f) == Printed("Generated " \o f)

PrintThenWrite(f) == <<Confirmation(f), Wrote(f)>>

\* The last two statements of a generator: write the file, then print the line.
WriteThenPrint(f) == <<Wrote(f), Confirmation(f)>>

BannerLines == <<Printed("Generating interactive Plotly visualizations..."), Printed("-" )>>

CompletionLines ==
    <<Printed("-"), Printed("All visualizations generated successfully!"),
      Printed("To view the visualizations:"),
      Printed("1. Open index.html in a web browser"),
      Printed("2. Or deploy to GitHub Pages")>>

ContinueAnyway(outcome, next) == next

\* main has no try/except: an exception raised by a generator ends the process.
Propagate(outcome, next) == IF outcome = "ok" THEN next ELSE "failed"

NoData == [heart_rate |-> <<>>, blood_pressure_sys |-> <<>>, spo2 |-> <<>>,
           data |-> <<>>, correlation_matrix |-> [m |-> <<>>, den |-> 1000]]

NoMatrix == [m |-> <<>>, den |-> 1000]

---------------------------------------------------------------------------
(* The program *)

fixed == <<gen, callTicks, dirExists>>
tsData == <<timestamps, heart_rate, blood_pressure_sys, spo2>>

Init ==
    /\ gen \in GenFamily
    /\ callTicks \in 0..MaxTicks
    /\ dirExists \in BOOLEAN
    /\ clock = 0
    /\ rng = np_random_seed(SEED)
    /\ run = 1
    /\ pc = "main"
    /\ log = <<>>
    /\ calls = [f \in {GeneratorFiles[k] : k \in 1..Len(GeneratorFiles)} |-> 0]
    /\ files = <<>>
    /\ timestamps = <<>>
    /\ heart_rate = <<>>
    /\ blood_pressure_sys = <<>>
    /\ spo2 = <<>>
    /\ data = <<>>
    /\ correlation_matrix = NoMatrix
    /\ cstage = "none"
    /\ dirAtStart = <<>>
    /\ prev = NoData

\* A generator's tail: the write, the confirmation line, and the return to main
\* (or the exception leaving main).
Finish(f, outcome, next) ==
    /\ calls' = [calls EXCEPT ![f] = @ + 1]
    /\ files' = write_html(files, f, run, outcome)
    /\ log' = IF outcome = "ok" THEN log \o WriteThenPrint(f) ELSE log
    /\ pc' = Propagate(outcome, next)

\* main, lines 181-182.
main_banner ==
    /\ pc = "main"
    /\ log' = log \o BannerLines
    /\ pc' = "timeseries"
    /\ clock' = clock + callTicks
    /\ UNCHANGED <<fixed, rng, run, calls, files, tsData, data,
                   correlation_matrix, cstage, dirAtStart, prev>>

\* main line 184: the whole of generate_timeseries_visualization.
generate_timeseries_visualization ==
    /\ pc = "timeseries"
    /\ timestamps' = Timestamps(clock)
    /\ heart_rate' = HeartRate(rng)
    /\ blood_pressure_sys' = BloodPressureSys(Advance(rng, hours))
    /\ spo2' = SpO2(Advance(rng, 2 * hours))
    /\ rng' = Advance(rng, 3 * hours)
    /\ clock' = clock + hours * callTicks
    /\ \E outcome \in Outcomes : Finish(TimeseriesFile, outcome, "demographics")
    /\ UNCHANGED <<fixed, run, data, correlation_matrix, cstage, dirAtStart, prev>>

\* main line 185: the whole of generate_demographics_visualization.
generate_demographics_visualization ==
    /\ pc = "demographics"
    /\ data' = DemographicRows(rng)
    /\ rng' = Advance(rng, Len(age_groups) * Len(outcomes))
    /\ clock' = clock + callTicks
    /\ \E outcome \in Outcomes : Finish(DemographicsFile, outcome, "correlation")
    /\ UNCHANGED <<fixed, run, tsData, correlation_matrix, cstage, dirAtStart, prev>>

\* main line 186: the whole of generate_correlation_visualization.
generate_correlation_visualization ==
    /\ pc = "correlation"
    /\ cstage = "none"
    /\ correlation_matrix' = CorrelationMatrix(rng)
    /\ cstage' = "normalized"
    /\ rng' = Advance(rng, n_vars * n_vars)
    /\ clock' = clock + callTicks
    /\ \E outcome \in Outcomes : Finish(CorrelationFile, outcome, "complete")
    /\ UNCHANGED <<fixed, run, tsData, data, dirAtStart, prev>>

\* main, lines 188-192, and the normal end of the process.
main_complete ==
    /\ pc = "complete"
    /\ log' = log \o CompletionLines
    /\ pc' = "done"
    /\ clock' = clock + callTicks
    /\ UNCHANGED <<fixed, rng, run, calls, files, tsData, data,
                   correlation_matrix, cstage, dirAtStart, prev>>

\* The script is run again: a new process, whose import of the module seeds the
\* stream (line 18) before main is called (lines 195-196).  Its memory is new;
\* the directory is what the last run left.  prev keeps the last run's arrays.
Launch ==
    /\ pc \in {"done", "failed"}
    /\ run < MaxRuns
    /\ run' = run + 1
    /\ rng' = np_random_seed(SEED)
    /\ pc' = "main"
    /\ log' = <<>>
    /\ calls' = [f \in DOMAIN calls |-> 0]
    /\ prev' = [heart_rate |-> heart_rate, blood_pressure_sys |-> blood_pressure_sys,
                spo2 |-> spo2, data |-> data,
                correlation_matrix |-> correlation_matrix]
    /\ timestamps' = <<>>
    /\ heart_rate' = <<>>
    /\ blood_pressure_sys' = <<>>
    /\ spo2' = <<>>
    /\ data' = <<>>
    /\ correlation_matrix' = NoMatrix
    /\ cstage' = "none"
    /\ clock' = clock + callTicks
    /\ dirAtStart' = files
    /\ UNCHANGED <<fixed, files>>

MainStep ==
    \/ main_banner
    \/ generate_timeseries_visualization
    \/ generate_demographics_visualization
    \/ generate_correlation_visualization
    \/ main_complete

Next == MainStep \/ Launch

Spec == Init /\ [][Next]_vars

\* The order of the events of a run depends neither on the values drawn nor on
\* the speed of the clock: the runs of one generator of the family at one clock
\* speed, under the scheduling the interpreter guarantees (a started process
\* runs to its end: no step of main waits on anything).
FairInit == Init /\ gen = (CHOOSE g \in GenFamily : TRUE) /\ callTicks = MaxTicks

FairSpec == FairInit /\ [][Next]_vars /\ WF_vars(MainStep)

---------------------------------------------------------------------------
(* The matrix pipeline of generate_correlation_visualization, statement by    *)
(* statement, on draws taken from bounded sets: every matrix with at most     *)
(* MaxNonZero non-zero draws, and every matrix the stream can deliver.        *)

ZeroMatrix == [i \in 1..n_vars |-> [j \in 1..n_vars |-> 0]]

RECURSIVE SparseDraws(_)
SparseDraws(k) ==
    IF k = 0 THEN {ZeroMatrix}
    ELSE {[M EXCEPT ![i][j] = v] :
            M \in SparseDraws(k - 1), i \in 1..n_vars, j \in 1..n_vars, v \in NormalValues}

StreamDraws == {RandnMatrix(x) : x \in 0..(Modulus - 1)}

InitCorr ==
    /\ \/ /\ gen = CHOOSE g \in GenFamily : TRUE
          /\ correlation_matrix \in [m : SparseDraws(MaxNonZero), den : {1000}]
       \/ /\ gen \in GenFamily
          /\ correlation_matrix \in [m : StreamDraws, den : {1000}]
    /\ cstage = "drawn"
    /\ callTicks = 0
    /\ dirExists = TRUE
    /\ clock = 0
    /\ rng = np_random_seed(SEED)
    /\ run = 1
    /\ pc = "correlation"
    /\ log = <<>>
    /\ calls = [f \in {GeneratorFiles[k] : k \in 1..Len(GeneratorFiles)} |-> 0]
    /\ files = <<>>
    /\ timestamps = <<>>
    /\ heart_rate = <<>>
    /\ blood_pressure_sys = <<>>
    /\ spo2 = <<>>
    /\ data = <<>>
    /\ dirAtStart = <<>>
    /\ prev = NoData

corrRest == <<fixed, rng, clock, run, pc, log, calls, files, tsData, data, dirAtStart, prev>>

\* line 141
corr_symmetrize ==
    /\ cstage = "drawn"
    /\ correlation_matrix' = [correlation_matrix EXCEPT !.m = Symmetrize(@)]
    /\ cstage' = "symmetric"
    /\ UNCHANGED corrRest

\* line 142
corr_fill_diagonal ==
    /\ cstage = "symmetric"
    /\ correlation_matrix' = [correlation_matrix EXCEPT !.m = fill_diagonal(@, 1000)]
    /\ cstage' = "filled"
    /\ UNCHANGED corrRest

\* line 145
corr_normalize ==
    /\ cstage = "filled"
    /\ correlation_matrix' = Normalize(correlation_matrix.m)
    /\ cstage' = "normalized"
    /\ UNCHANGED corrRest

NextCorr == corr_symmetrize \/ corr_fill_diagonal \/ corr_normalize

SpecCorr == InitCorr /\ [][NextCorr]_vars

---------------------------------------------------------------------------
(* Properties *)

Range(s) == {s[k] : k \in DOMAIN s}

M == correlation_matrix.m
Den == correlation_matrix.den

\* C1: in the matrix handed to the heatmap (after symmetrize, fill-diagonal and
\* normalize) every diagonal entry equals 1, whatever the draws.
C1_DiagonalIsOne ==
    cstage = "normalized" => \A i \in 1..8 : M[i][i] = Den

\* C2: the matrix is exactly 8x8, every entry of the normalized matrix lies in
\* [-1, 1], and the divisor max|M| of the normalization is never zero.
C2_RangeAndDivisor ==
    /\ cstage = "filled" => MaxAbs(M) > 0
    /\ cstage = "normalized" =>
          /\ Den > 0
          /\ DOMAIN M = 1..8
          /\ \A i \in 1..8 : DOMAIN M[i] = 1..8
          /\ \A i \in 1..8, j \in 1..8 : -Den <= M[i][j] /\ M[i][j] <= Den

\* A normalized matrix whose divisor is above 1 and one of whose entries is -1.
C2_Witness ==
    /\ cstage = "normalized"
    /\ Den > 1000
    /\ \E i \in 1..8, j \in 1..8 : M[i][j] = -Den

\* C3: the matrix is symmetric once (A + A^T)/2 has run, and stays symmetric
\* through the fill-diagonal and normalization statements.
C3_Symmetric ==
    cstage \in {"symmetric", "filled", "normalized"} =>
        \A i \in 1..8, j \in 1..8 : M[i][j] = M[j][i]

\* A final matrix with a non-zero entry off the diagonal.
C3_Witness ==
    /\ cstage = "normalized"
    /\ \E i \in 1..8, j \in 1..8 : i # j /\ M[i][j] # 0

AfterTimeseries == calls[TimeseriesFile] > 0
AfterDemographics == calls[DemographicsFile] > 0

\* C4: the time-series generator produces timestamp, heart-rate, systolic
\* pressure and oxygen-saturation sequences of length exactly 72, and every
\* oxygen-saturation value lies in [90, 100].
C4_TimeseriesShape ==
    AfterTimeseries =>
        /\ Len(timestamps) = 72
        /\ Len(heart_rate) = 72
        /\ Len(blood_pressure_sys) = 72
        /\ Len(spo2) = 72
        /\ \A k \in 1..72 : 90000 <= spo2[k] /\ spo2[k] <= 100000

\* The generator has run and clipped at both ends: 95 + 2z is never exactly 90
\* or 100 for a draw z of the model.
C4_Witness ==
    /\ pc = "demographics"
    /\ \E k \in 1..72 : spo2[k] = 90000
    /\ \E k \in 1..72 : spo2[k] = 100000

\* C5: the demographics generator produces exactly 15 rows, exactly one for
\* each of the 5 x 3 (age group, outcome) pairs, each with 10 <= count < 100.
C5_DemographicRows ==
    AfterDemographics =>
        /\ Len(data) = 15
        /\ Cardinality(Range(age_groups)) = 5
        /\ Cardinality(Range(outcomes)) = 3
        /\ \A a \in Range(age_groups), o \in Range(outcomes) :
              Cardinality({k \in 1..Len(data) :
                              data[k].AgeGroup = a /\ data[k].Outcome = o}) = 1
        /\ \A k \in 1..Len(data) : 10 <= data[k].Count /\ data[k].Count < 100

\* The generator has run and a count in the top of the range was drawn.
C5_Witness ==
    /\ pc = "correlation"
    /\ Len(data) = 15
    /\ \E k \in 1..15 : data[k].Count >= 90

\* C6: two runs with the fixed seed produce identical synthesized arrays: the
\* vital signs, the demographic counts and the correlation matrix of a run equal
\* those of the run before, whatever the clock, the directory and the outcome
\* of the writes were in either run.
C6_Deterministic ==
    /\ (heart_rate # <<>> /\ prev.heart_rate # <<>>) =>
          /\ heart_rate = prev.heart_rate
          /\ blood_pressure_sys = prev.blood_pressure_sys
          /\ spo2 = prev.spo2
    /\ (data # <<>> /\ prev.data # <<>>) => data = prev.data
    /\ (M # <<>> /\ prev.correlation_matrix.m # <<>>) =>
          correlation_matrix = prev.correlation_matrix

\* A second run that produced all three arrays, as the first did, at a later
\* clock time and over a directory that was no longer empty.
C6_Witness ==
    /\ run = 2
    /\ M # <<>>
    /\ prev.correlation_matrix.m # <<>>
    /\ timestamps # <<>>
    /\ timestamps[1] > -(hours * HourMs)
    /\ dirAtStart # <<>>

ThreeFiles == {"timeseries.html", "demographics.html", "correlation.html"}

\* C7: after a successful run of main the output directory holds exactly
\* timeseries.html, demographics.html and correlation.html, each written whole
\* by this run: from an empty directory, and on a re-run over the three files.
C7_ExactlyThreeFiles ==
    pc = "done" =>
        /\ DOMAIN files = ThreeFiles
        /\ \A f \in ThreeFiles : files[f] = [state |-> "complete", run |-> run]

\* A successful re-run that found the three files of the run before.
C7_Witness ==
    /\ pc = "done"
    /\ run = 2
    /\ DOMAIN dirAtStart = ThreeFiles
    /\ \A f \in ThreeFiles : dirAtStart[f] = [state |-> "complete", run |-> 1]

Invoked(k) == calls[GeneratorFiles[k]] > 0
Failed(k) == Invoked(k) /\ Confirmation(GeneratorFiles[k]) \notin Range(log)

\* C8: if a generator fails, no later generator is invoked, no later
\* generator's file is created or modified, neither the failing generator's
\* confirmation line nor the completion lines are printed, the process has
\* ended as failed, and the files of the earlier generators stay written.
C8_NoRecovery ==
    \A k \in 1..3 : Failed(k) =>
        /\ pc = "failed"
        /\ ~ ENABLED MainStep
        /\ Printed("All visualizations generated successfully!") \notin Range(log)
        /\ \A j \in 1..3 : j > k =>
              /\ ~ Invoked(j)
              /\ Wrote(GeneratorFiles[j]) \notin Range(log)
              /\ Confirmation(GeneratorFiles[j]) \notin Range(log)
              /\ (GeneratorFiles[j] \in DOMAIN files) = (GeneratorFiles[j] \in DOMAIN dirAtStart)
              /\ GeneratorFiles[j] \in DOMAIN files =>
                    files[GeneratorFiles[j]] = dirAtStart[GeneratorFiles[j]]
        /\ \A j \in 1..3 : j < k =>
              /\ GeneratorFiles[j] \in DOMAIN files
              /\ files[GeneratorFiles[j]] = [state |-> "complete", run |-> run]

\* The demographics generator failed in a re-run, over a directory that held
\* the correlation file of the run before.
C8_Witness ==
    /\ pc = "failed"
    /\ Failed(2)
    /\ run = 2
    /\ "correlation.html" \in DOMAIN files
    /\ files["timeseries.html"].run = 2

ExpectedLog ==
    <<Printed("Generating interactive Plotly visualizations..."), Printed("-"),
      Wrote("timeseries.html"), Printed("Generated timeseries.html"),
      Wrote("demographics.html"), Printed("Generated demographics.html"),
      Wrote("correlation.html"), Printed("Generated correlation.html"),
      Printed("-"), Printed("All visualizations generated successfully!"),
      Printed("To view the visualizations:"),
      Printed("1. Open index.html in a web browser"),
      Printed("2. Or deploy to GitHub Pages")>>

IsPrefix(s, t) == Len(s) <= Len(t) /\ s = SubSeq(t, 1, Len(s))

\* C9: in a successful run the events are, in this order: banner; time-series
\* file written, then its line; demographics file written, then its line;
\* correlation file written, then its line; completion message.  Each
\* generator is invoked exactly once, and every run terminates.
C9_OrderAndTermination ==
    /\ [](IsPrefix(log, ExpectedLog))
    /\ [](pc = "done" => log = ExpectedLog /\ \A k \in 1..3 : calls[GeneratorFiles[k]] = 1)
    /\ \A r \in 1..MaxRuns :
          (run = r /\ pc = "main") ~> (run = r /\ pc \in {"done", "failed"})

\* A successful re-run, with all thirteen events logged.
C9_Witness ==
    /\ pc = "done"
    /\ Len(log) = 13
    /\ run = 2

\* C10: the 72 timestamps are strictly increasing, consecutive ones are one
\* hour apart, and the last one is the current time at which the generator
\* ran (a clock value between its start and its end).
C10_WindowEndsNow ==
    (pc = "demographics" /\ timestamps # <<>>) =>
        /\ \A k \in 1..71 : timestamps[k] < timestamps[k + 1]
        /\ \A k \in 1..71 : timestamps[k + 1] - timestamps[k] = HourMs
        /\ clock - hours * callTicks <= timestamps[72]
        /\ timestamps[72] <= clock

====
